---- MODULE Spec2Model ----
(***************************************************************************)
(* Model of cimpy/cimexport.py: the reference resolver                     *)
(* (_get_reference_uuid, _search_mRID), the attribute extractor            *)
(* (_get_attributes), the profile assignment (_sort_classes_to_profile)    *)
(* and the export orchestrator (cim_export).                               *)
(*                                                                         *)
(* Python values are tagged records [t |-> tag, v |-> payload]; a Python   *)
(* str is a TLA+ string, a Python dict or list with an order is a          *)
(* sequence.  A dotted attribute key 'Class.attr' is the tuple of its      *)
(* '.'-separated parts, so that str.split('.') is tuple access and a       *)
(* reserved key such as 'readInProfile' is a 1-tuple.                      *)
(***************************************************************************)
EXTENDS Integers, Sequences, FiniteSets, TLC

VARIABLES
    res,                    \* registry: ordered dict, sequence of [mRID, obj]
    heap,                   \* object handle -> model object
    possibleProfileList,    \* class name -> (key -> list of ranks): class attributes
    activeProfileList,      \* set of profile short names active for the export
    attr_dict,              \* input of _get_reference_uuid
    reference_list,         \* result of _get_reference_uuid
    class_attributes_list,  \* input of _sort_classes_to_profile
    export_dict,            \* result of _sort_classes_to_profile: owned entries
    export_about_dict,      \* result of _sort_classes_to_profile: about entries
    files,                  \* file system: path -> rendered context
    clock,                  \* datetime.now(), one tick per cim_export call
    pc                      \* "ready" | "returned" | "raised"

vars == <<res, heap, possibleProfileList, activeProfileList, attr_dict,
          reference_list, class_attributes_list, export_dict,
          export_about_dict, files, clock, pc>>

-----------------------------------------------------------------------------
(* Bounds of the model *)

MaxListLen == 2
MaxObjs == 2
MaxCalls == 2

-----------------------------------------------------------------------------
(* Python values *)

PyNone == [t |-> "none"]
PyStr(s) == [t |-> "str", v |-> s]
PyInt(n) == [t |-> "int", v |-> n]
PyFloat(n) == [t |-> "float", v |-> n]     \* integral floats only: 0.0, 1.0
PyBool(b) == [t |-> "bool", v |-> b]
PyObj(h) == [t |-> "obj", v |-> h]
PyList(s) == [t |-> "list", v |-> s]

IsNumber(a) == a.t \in {"int", "float", "bool"}
NumVal(a) == IF a.t = "bool" THEN (IF a.v THEN 1 ELSE 0) ELSE a.v

RECURSIVE PyEq(_, _)
\* Python ==: numbers compare by value across int, float and bool; values of
\* different kinds are never equal; objects compare by identity.
PyEq(a, b) ==
    IF IsNumber(a) /\ IsNumber(b) THEN NumVal(a) = NumVal(b)
    ELSE IF a.t # b.t THEN FALSE
    ELSE IF a.t = "none" THEN TRUE
    ELSE IF a.t = "list"
         THEN /\ Len(a.v) = Len(b.v)
              /\ \A i \in 1..Len(a.v) : PyEq(a.v[i], b.v[i])
    ELSE a.v = b.v

\* Python `x in list`
PyIn(x, list) == \E i \in 1..Len(list) : PyEq(x, list[i])

-----------------------------------------------------------------------------
(* Model objects *)

\* issubclass(type(x), base_class)
IsBaseObject(h) == heap[h].base

\* the instance __dict__ as an ordered sequence of [key, value]
DictKeys(d) == {d[i].key : i \in 1..Len(d)}
DictGet(d, k) == d[CHOOSE i \in 1..Len(d) : d[i].key = k].value

HasAttr(h, name) == name \in DictKeys(heap[h].dict)
GetAttr(h, name) == DictGet(heap[h].dict, name)

-----------------------------------------------------------------------------
(* _search_mRID *)

RECURSIVE SearchFrom(_, _, _)
SearchFrom(class_object, registry, i) ==
    IF i > Len(registry) THEN ""
    ELSE IF PyEq(PyObj(class_object), PyObj(registry[i].obj)) THEN registry[i].mRID
    ELSE SearchFrom(class_object, registry, i + 1)

\* mutant: the scan returns the first key without comparing the objects
search_mRID_FirstKey(class_object, registry) ==
    IF Len(registry) = 0 THEN "" ELSE registry[1].mRID

search_mRID(class_object, registry) == SearchFrom(class_object, registry, 1)

-----------------------------------------------------------------------------
(* _get_reference_uuid *)

DefaultValues == <<PyStr(""), PyNone, PyFloat(0), PyInt(0)>>
ScalarDefaultValues == DefaultValues \o <<PyStr("many")>>

\* '%' + <identifier of elem>, or the TypeError of '%' + <not a str>
ReferenceOf(elem, registry) ==
    IF ~HasAttr(elem, "mRID")
    THEN [raised |-> FALSE, uuid |-> "%" \o search_mRID(elem, registry)]
    ELSE IF GetAttr(elem, "mRID").t = "str"
         THEN [raised |-> FALSE, uuid |-> "%" \o GetAttr(elem, "mRID").v]
         ELSE [raised |-> TRUE, uuid |-> ""]

RECURSIVE ListToArray(_, _, _)
\* lines 43-60: the array of reference tokens of a list value; a token is
\* appended whether or not the search found the object
ListToArray(list, registry, i) ==
    IF i > Len(list) THEN [raised |-> FALSE, array |-> <<>>]
    ELSE LET elem == list[i]
             rest == ListToArray(list, registry, i + 1)
         IN  IF elem.t = "obj" /\ IsBaseObject(elem.v)
             THEN LET r == ReferenceOf(elem.v, registry)
                  IN  IF r.raised THEN [raised |-> TRUE, array |-> <<>>]
                      ELSE [raised |-> rest.raised,
                            array |-> <<PyStr(r.uuid)>> \o rest.array]
             ELSE rest

RECURSIVE EmitList(_, _, _)
\* lines 84-88
EmitList(array, key, i) ==
    IF i > Len(array) THEN <<>>
    ELSE (IF ~PyIn(array[i], DefaultValues)
          THEN <<[value |-> array[i], attr_name |-> key]>>
          ELSE <<>>) \o EmitList(array, key, i + 1)

\* mutant: the scalar filter forgets the numeric defaults
EmitScalar_NoNumericDefaults(value, key) ==
    IF ~PyIn(value, <<PyStr(""), PyNone, PyStr("many")>>)
    THEN <<[value |-> value, attr_name |-> key]>>
    ELSE <<>>

\* lines 83-91
EmitScalar(value, key) ==
    IF ~PyIn(value, ScalarDefaultValues)
    THEN <<[value |-> value, attr_name |-> key]>>
    ELSE <<>>

\* One iteration of the loop of line 36.  acc = [raised, list, elemBound]:
\* elemBound tells whether the local `elem` of line 44 is bound yet.
ReferenceStep(acc, entry, registry) ==
    LET key == entry.key
        val == entry.value
    IN
    IF key \in {<<"readInProfile">>, <<"possibleProfileList">>}
    THEN [acc EXCEPT !.list = @ \o <<[k \in {key[1]} |-> val]>>]
    ELSE IF val.t = "list"
    THEN LET a == ListToArray(val.v, registry, 1)
             value == IF Len(a.array) = 1 THEN a.array[1] ELSE PyList(a.array)
             bound == acc.elemBound \/ Len(val.v) > 0
         IN  IF a.raised
             THEN [acc EXCEPT !.raised = TRUE, !.elemBound = bound]
             ELSE [acc EXCEPT
                      !.elemBound = bound,
                      !.list = @ \o (IF value.t = "list"
                                     THEN EmitList(value.v, key, 1)
                                     ELSE EmitScalar(value, key))]
    ELSE IF val.t = "obj" /\ IsBaseObject(val.v)
    THEN LET r == ReferenceOf(val.v, registry)
         IN  IF r.raised THEN [acc EXCEPT !.raised = TRUE]
             \* line 73 reads `elem`: UnboundLocalError when no list element
             \* was iterated before
             ELSE IF r.uuid = "%" /\ ~acc.elemBound
                  THEN [acc EXCEPT !.raised = TRUE]
             ELSE [acc EXCEPT !.list = @ \o EmitScalar(PyStr(r.uuid), key)]
    ELSE IF PyEq(val, PyStr("")) \/ val.t = "none"
    THEN acc
    ELSE [acc EXCEPT !.list = @ \o EmitScalar(val, key)]

RECURSIVE ReferenceLoop(_, _, _, _)
ReferenceLoop(acc, attrs, registry, i) ==
    IF i > Len(attrs) \/ acc.raised THEN acc
    ELSE ReferenceLoop(ReferenceStep(acc, attrs[i], registry), attrs, registry, i + 1)

get_reference_uuid(attrs, registry) ==
    ReferenceLoop([raised |-> FALSE, list |-> <<>>, elemBound |-> FALSE],
                  attrs, registry, 1)

-----------------------------------------------------------------------------
(* Profiles *)

\* the Enum cgmesProfile: short name -> export priority
cgmesProfile ==
    [EQ |-> 0, SSH |-> 1, TP |-> 2, SV |-> 3, DY |-> 4, GL |-> 5, DI |-> 6]

\* cgmesProfile(value).name
cgmesProfileName(value) ==
    CHOOSE n \in DOMAIN cgmesProfile : cgmesProfile[n] = value

\* the dict short_profile_name, in its order
short_profile_name ==
    <<[profile_name |-> "DiagramLayout", short_name |-> "DI"],
      [profile_name |-> "Dynamics", short_name |-> "DY"],
      [profile_name |-> "Equipment", short_name |-> "EQ"],
      [profile_name |-> "GeographicalLocation", short_name |-> "GL"],
      [profile_name |-> "StateVariables", short_name |-> "SV"],
      [profile_name |-> "SteadyStateHypothesis", short_name |-> "SSH"],
      [profile_name |-> "Topology", short_name |-> "TP"]>>

-----------------------------------------------------------------------------
(* _sort_classes_to_profile *)

\* dict[key] = value
Put(d, key, value) ==
    [x \in DOMAIN d \cup {key} |-> IF x = key THEN value ELSE d[x]]

\* mutant: the list is scanned in the order it was given in
SortRanks_Unsorted(list) == list

\* list.sort() of a list of ranks
SortRanks(list) == SortSeq(list, LAMBDA a, b : a < b)

RECURSIVE FirstActiveFrom(_, _, _)
\* lines 186-190, 227-231: the name of the first rank of the list whose
\* profile is active, '' when there is none
FirstActiveFrom(list, active, i) ==
    IF i > Len(list) THEN ""
    ELSE IF cgmesProfileName(list[i]) \in active THEN cgmesProfileName(list[i])
    ELSE FirstActiveFrom(list, active, i + 1)

FirstActive(list, active) == FirstActiveFrom(list, active, 1)

\* line 169: `readInProfile['class'] in possibleProfileList[name]['class']`,
\* a str looked up in a list of enum values
ReadInProfileAllowed(name, list) ==
    PyIn(PyStr(name), [i \in 1..Len(list) |-> PyInt(list[i])])

\* lines 160-199.  The class-level decision for one klass over the class
\* attributes ppl: [raised, skip, profile, ppl].
ClassProfile(klass, active, ppl) ==
    LET readInProfile == klass.attributes[1].readInProfile
        pplKeys == klass.attributes[2].possibleProfileList
        name == klass.name
        imported == "class" \in DOMAIN readInProfile
                    /\ readInProfile["class"] \in active
        keyError == imported /\ ~(name \in pplKeys /\ "class" \in DOMAIN ppl[name])
        fromRead == IF imported /\ ~keyError
                       /\ ReadInProfileAllowed(readInProfile["class"], ppl[name]["class"])
                    THEN readInProfile["class"] ELSE ""
    IN
    IF keyError
    THEN [raised |-> TRUE, skip |-> FALSE, profile |-> "", ppl |-> ppl]
    ELSE IF fromRead # ""
    THEN [raised |-> FALSE, skip |-> FALSE, profile |-> fromRead, ppl |-> ppl]
    ELSE IF name \in pplKeys /\ "class" \in DOMAIN ppl[name]
    THEN LET sorted == SortRanks(ppl[name]["class"])
             found == FirstActive(sorted, active)
         IN  [raised |-> FALSE, skip |-> found = "", profile |-> found,
              ppl |-> [ppl EXCEPT ![name]["class"] = sorted]]
    ELSE [raised |-> FALSE, skip |-> FALSE, profile |-> "", ppl |-> ppl]

\* lines 202-254.  One attribute of a klass whose class profile is csp.
\* acc = [ppl, same_package_list, about_dict]
AttributeStep(acc, attribute, klass, csp, active) ==
    IF "attr_name" \notin DOMAIN attribute THEN acc
    ELSE
    LET readInProfile == klass.attributes[1].readInProfile
        pplKeys == klass.attributes[2].possibleProfileList
        attribute_class == attribute.attr_name[1]
        attribute_name == attribute.attr_name[2]
        fromRead == IF attribute_name \in DOMAIN readInProfile
                       /\ readInProfile[attribute_name] \in active
                    THEN readInProfile[attribute_name] ELSE ""
        listed == /\ attribute_class \in pplKeys
                  /\ attribute_name \in DOMAIN acc.ppl[attribute_class]
        sorted == SortRanks(acc.ppl[attribute_class][attribute_name])
        profile == IF fromRead # "" THEN fromRead
                   ELSE IF listed THEN FirstActive(sorted, active)
                   ELSE ""
        ppl1 == IF fromRead = "" /\ listed
                THEN [acc.ppl EXCEPT ![attribute_class][attribute_name] = sorted]
                ELSE acc.ppl
    IN
    IF attribute_name = "mRID" THEN acc
    ELSE IF fromRead = "" /\ listed /\ profile = ""
    THEN [acc EXCEPT !.ppl = ppl1]
    ELSE IF profile = csp
    THEN [acc EXCEPT !.ppl = ppl1,
                     !.same_package_list = Append(@, attribute)]
    ELSE [acc EXCEPT !.ppl = ppl1,
                     !.about_dict =
                        IF profile \in DOMAIN @
                        THEN [@ EXCEPT ![profile] = Append(@, attribute)]
                        ELSE Put(@, profile, <<attribute>>)]

RECURSIVE AttributeLoop(_, _, _, _, _)
AttributeLoop(acc, klass, csp, active, i) ==
    IF i > Len(klass.attributes) THEN acc
    ELSE AttributeLoop(AttributeStep(acc, klass.attributes[i], klass, csp, active),
                       klass, csp, active, i + 1)

\* mutant: the first entry of a profile is added by both branches
AddExportClass_Twice(dict, profile, klass, attributes) ==
    LET export_class == [name |-> klass.name, mRID |-> klass.mRID,
                         attributes |-> attributes]
    IN  IF profile \in DOMAIN dict
        THEN [dict EXCEPT ![profile].classes = Append(@, export_class)]
        ELSE Put(dict, profile, [classes |-> <<export_class, export_class>>])

\* lines 256-263
AddExportClass(dict, profile, klass, attributes) ==
    LET export_class == [name |-> klass.name, mRID |-> klass.mRID,
                         attributes |-> attributes]
    IN  IF profile \in DOMAIN dict
        THEN [dict EXCEPT ![profile].classes = Append(@, export_class)]
        ELSE Put(dict, profile, [classes |-> <<export_class>>])

\* lines 266-272
AddAboutClasses(dict, klass, about_dict) ==
    [x \in DOMAIN dict \cup DOMAIN about_dict |->
        IF x \in DOMAIN about_dict
        THEN LET export_about_class ==
                    [name |-> klass.name, mRID |-> klass.mRID,
                     attributes |-> about_dict[x]]
             IN  IF x \in DOMAIN dict
                 THEN [classes |-> Append(dict[x].classes, export_about_class)]
                 ELSE [classes |-> <<export_about_class>>]
        ELSE dict[x]]

\* lines 153-272: one iteration of the loop over the classes.
\* st = [raised, export_dict, export_about_dict, ppl]
SortKlass(st, klass, active) ==
    LET c == ClassProfile(klass, active, st.ppl)
        a == AttributeLoop([ppl |-> c.ppl, same_package_list |-> <<>>,
                            about_dict |-> <<>>],
                           klass, c.profile, active, 1)
    IN
    IF c.raised THEN [st EXCEPT !.raised = TRUE]
    ELSE IF c.skip THEN [st EXCEPT !.ppl = c.ppl]
    ELSE [raised |-> FALSE,
          export_dict |-> AddExportClass(st.export_dict, c.profile, klass,
                                         a.same_package_list),
          export_about_dict |-> AddAboutClasses(st.export_about_dict, klass,
                                                a.about_dict),
          ppl |-> a.ppl]

RECURSIVE SortLoop(_, _, _, _)
SortLoop(st, list, active, i) ==
    IF i > Len(list) \/ st.raised THEN st
    ELSE SortLoop(SortKlass(st, list[i], active), list, active, i + 1)

sort_classes_to_profile(list, active, ppl) ==
    SortLoop([raised |-> FALSE, export_dict |-> <<>>, export_about_dict |-> <<>>,
              ppl |-> ppl],
             list, active, 1)

-----------------------------------------------------------------------------
(* _get_attributes *)

\* the model classes the inputs use: the first base class of each class and
\* the keys of the __dict__ of a fresh instance, in the order __init__ sets them
ClassBases ==
    [Terminal |-> "IdentifiedObject", IdentifiedObject |-> "Base",
     SvPowerFlow |-> "Base"]
FreshDictKeys ==
    [Base |-> <<>>, IdentifiedObject |-> <<"mRID", "name">>,
     Terminal |-> <<"mRID", "name", "SvPowerFlow">>, SvPowerFlow |-> <<"p">>]

RECURSIVE InheritanceList(_)
\* lines 363-372: the class names from Base down to the class itself
InheritanceList(class_name) ==
    IF class_name = "Base" THEN <<"Base">>
    ELSE Append(InheritanceList(ClassBases[class_name]), class_name)

RECURSIVE AttributesOfLevel(_, _, _, _, _)
\* lines 388-394: the keys of one level that no level above has recorded
AttributesOfLevel(h, class_name, keys, seen, i) ==
    IF i > Len(keys) THEN <<>>
    ELSE (IF keys[i] \in seen THEN <<>>
          ELSE <<[key |-> <<class_name, keys[i]>>, value |-> GetAttr(h, keys[i])]>>)
         \o AttributesOfLevel(h, class_name, keys, seen \cup {keys[i]}, i + 1)

SeqToSet(s) == {s[i] : i \in 1..Len(s)}

RECURSIVE AttributesOfLevels(_, _, _, _)
\* lines 382-400: the walk over the levels; the last level is the object
\* itself, whose __dict__ is its own
AttributesOfLevels(h, levels, seen, n) ==
    IF n > Len(levels) THEN <<>>
    ELSE LET keys == IF n = Len(levels)
                     THEN [i \in 1..Len(heap[h].dict) |-> heap[h].dict[i].key]
                     ELSE FreshDictKeys[levels[n]]
         IN  AttributesOfLevel(h, levels[n], keys, seen, 1)
             \o AttributesOfLevels(h, levels, seen \cup SeqToSet(keys), n + 1)

get_attributes(h) ==
    LET levels == InheritanceList(heap[h].cls)
    IN  <<[key |-> <<"readInProfile">>, value |-> heap[h].readInProfile],
          [key |-> <<"possibleProfileList">>,
           value |-> SeqToSet(levels) \ {"Base"}]>>
        \o AttributesOfLevels(h, levels, {}, 1)

-----------------------------------------------------------------------------
(* _get_class_attributes_with_references *)

RECURSIVE ClassAttributesFrom(_, _)
ClassAttributesFrom(registry, i) ==
    IF i > Len(registry) THEN [raised |-> FALSE, list |-> <<>>]
    ELSE LET r == get_reference_uuid(get_attributes(registry[i].obj), registry)
             rest == ClassAttributesFrom(registry, i + 1)
         IN  IF r.raised THEN [raised |-> TRUE, list |-> <<>>]
             ELSE [raised |-> rest.raised,
                   list |-> <<[name |-> heap[registry[i].obj].cls,
                               mRID |-> registry[i].mRID,
                               attributes |-> r.list]>> \o rest.list]

get_class_attributes_with_references(registry) == ClassAttributesFrom(registry, 1)

-----------------------------------------------------------------------------
(* cim_export *)

file_name == "stem"
namespaces_dict == <<[key |-> "cim", url |-> "http://iec.ch/TC57/2012/CIM-schema-cim16#"]>>

\* _create_namespaces_list
create_namespaces_list(dict) ==
    [i \in 1..Len(dict) |-> [key |-> dict[i].key, url |-> dict[i].url]]

\* mutant: only the owned entries count
HasContribution_ExportOnly(short_name, exported, about) ==
    short_name \in DOMAIN exported

\* line 318: the profile has something to write
HasContribution(short_name, exported, about) ==
    short_name \in DOMAIN exported \/ short_name \in DOMAIN about

\* lines 333-336 (all files go to the one directory cwd)
FullFileName(profile_name) == file_name \o "_" \o profile_name \o ".xml"

\* lines 313-316, 338-351: the context handed to the renderer
RenderContext(p, exported, about, created) ==
    [classes |-> IF p.short_name \in DOMAIN exported
                 THEN PyList(exported[p.short_name].classes) ELSE PyBool(FALSE),
     about |-> IF p.short_name \in DOMAIN about
               THEN PyList(about[p.short_name].classes) ELSE PyBool(FALSE),
     namespaces |-> create_namespaces_list(namespaces_dict),
     model |-> <<[mRID |-> file_name,
                  description |->
                    <<[attr_name |-> "created", value |-> created],
                      [attr_name |-> "modelingAuthoritySet",
                       value |-> "www.acs.eonerc.rwth-aachen.de"],
                      [attr_name |-> "profile", value |-> p.profile_name]>>]>>]

\* mutant: the file is written whether or not its path exists
WriteFile_Overwrite(fs, path, content) == Put(fs, path, content)

\* lines 341-355: the file is written unless its path exists
WriteFile(fs, path, content) ==
    IF path \notin DOMAIN fs THEN Put(fs, path, content) ELSE fs

RECURSIVE WriteProfiles(_, _, _, _, _)
\* lines 312-356: the loop over short_profile_name
WriteProfiles(fs, exported, about, created, i) ==
    IF i > Len(short_profile_name) THEN fs
    ELSE LET p == short_profile_name[i]
         IN  WriteProfiles(
                 IF HasContribution(p.short_name, exported, about)
                 THEN WriteFile(fs, FullFileName(p.profile_name),
                                RenderContext(p, exported, about, created))
                 ELSE fs,
                 exported, about, created, i + 1)

-----------------------------------------------------------------------------
(* Specification SpecRef: _get_reference_uuid applied to the attribute map    *)
(* of one object, over a fixed heap and registry.                          *)

\* "oA" carries its identifier and is registered under it; "oB" carries none
\* and is registered under "k2"; "oC" carries none and is not registered;
\* "oD" carries an identifier that is no key of the registry; "oX" is no
\* subclass of Base.
RefHeap ==
    [h \in {"oA", "oB", "oC", "oD", "oX"} |->
        [cls |-> CASE h = "oA" -> "Terminal"
                   [] h = "oB" -> "SvVoltage"
                   [] h = "oC" -> "SvVoltage"
                   [] h = "oD" -> "Terminal"
                   [] OTHER -> "dict",
         base |-> h # "oX",
         dict |-> CASE h = "oA" -> <<[key |-> "mRID", value |-> PyStr("k1")]>>
                    [] h = "oD" -> <<[key |-> "mRID", value |-> PyStr("zz")]>>
                    [] OTHER -> <<>>,
         readInProfile |-> <<>>]]

RefRes == <<[mRID |-> "k1", obj |-> "oA"], [mRID |-> "k2", obj |-> "oB"]>>

RefScalars ==
    {PyNone, PyStr(""), PyStr("x"), PyStr("many"), PyInt(0), PyInt(1),
     PyFloat(0), PyFloat(1), PyBool(FALSE), PyBool(TRUE)}

RefObjects == {PyObj(h) : h \in DOMAIN RefHeap}

RefListElems == RefObjects \cup {PyInt(0)}

RefLists ==
    {PyList(s) : s \in UNION {[1..n -> RefListElems] : n \in 0..MaxListLen}}

RefValues == RefScalars \cup RefObjects \cup RefLists

RefAttrKeys == <<<<"Terminal", "a">>, <<"Terminal", "b">>>>

RefAttrDicts ==
    {<<[key |-> <<"readInProfile">>, value |-> <<>>],
       [key |-> <<"possibleProfileList">>, value |-> {}]>>
       \o [i \in 1..Len(RefAttrKeys) |-> [key |-> RefAttrKeys[i], value |-> f[i]]]
     : f \in [1..Len(RefAttrKeys) -> RefValues]}

InitRef ==
    /\ heap = RefHeap
    /\ res = RefRes
    /\ attr_dict \in RefAttrDicts
    /\ reference_list = <<>>
    /\ possibleProfileList = <<>>
    /\ activeProfileList = {}
    /\ class_attributes_list = <<>>
    /\ export_dict = <<>>
    /\ export_about_dict = <<>>
    /\ files = <<>>
    /\ clock = 0
    /\ pc = "ready"

GetReferenceUuid ==
    /\ pc = "ready"
    /\ \E r \in {get_reference_uuid(attr_dict, res)} :
           /\ reference_list' = (IF r.raised THEN <<>> ELSE r.list)
           /\ pc' = (IF r.raised THEN "raised" ELSE "returned")
    /\ UNCHANGED <<res, heap, possibleProfileList, activeProfileList, attr_dict,
                   class_attributes_list, export_dict, export_about_dict,
                   files, clock>>

NextRef == GetReferenceUuid

SpecRef == InitRef /\ [][NextRef]_vars

-----------------------------------------------------------------------------
(* Specification SpecSort: _sort_classes_to_profile applied to a list of      *)
(* Terminal instances whose attribute `name` is declared by the parent     *)
(* class IdentifiedObject.                                                 *)

\* the profiles the inputs use
UsedProfiles == {"EQ", "SV"}

\* lists of distinct ranks of the used profiles, in every order
RankLists ==
    {s \in UNION {[1..n -> {cgmesProfile[q] : q \in UsedProfiles}]
                    : n \in 0..Cardinality(UsedProfiles)}
       : \A i, j \in 1..Len(s) : i # j => s[i] # s[j]}

\* a dict over a subset of the keys
Dicts(keys, values) == UNION {[d -> values] : d \in SUBSET keys}

\* the class attribute possibleProfileList of Terminal: no `class` key, or
\* one with a list of ranks
TerminalProfileLists == Dicts({"class"}, RankLists)

\* the class attribute possibleProfileList of IdentifiedObject, which lists
\* the attribute `name` or does not
IdentifiedObjectProfileLists ==
    {Put(d, "class", <<cgmesProfile["EQ"]>>) : d \in Dicts({"name"}, RankLists)}

SortProfileLists ==
    {[c \in dom |-> IF c = "Terminal" THEN t ELSE o]
       : dom \in SUBSET {"Terminal", "IdentifiedObject"},
         t \in TerminalProfileLists, o \in IdentifiedObjectProfileLists}

\* the entry of one Terminal in class_attributes_list
SortKlassEntry(mRID, readInProfile, pplKeys) ==
    [name |-> "Terminal", mRID |-> mRID,
     attributes |->
        <<[readInProfile |-> readInProfile],
          [possibleProfileList |-> pplKeys],
          [value |-> PyStr(mRID), attr_name |-> <<"IdentifiedObject", "mRID">>],
          [value |-> PyStr("n"), attr_name |-> <<"IdentifiedObject", "name">>]>>]

Identifiers == <<"k1", "k2", "k3", "k4">>

SortInputs(ppl) ==
    {[i \in 1..n |-> SortKlassEntry(Identifiers[i], f[i], DOMAIN ppl)]
       : n \in 0..MaxObjs, f \in [1..MaxObjs -> Dicts({"class", "name"}, UsedProfiles)]}

InitSort ==
    /\ possibleProfileList \in SortProfileLists
    /\ activeProfileList \in SUBSET UsedProfiles
    /\ class_attributes_list \in SortInputs(possibleProfileList)
    /\ export_dict = <<>>
    /\ export_about_dict = <<>>
    /\ heap = <<>>
    /\ res = <<>>
    /\ attr_dict = <<>>
    /\ reference_list = <<>>
    /\ files = <<>>
    /\ clock = 0
    /\ pc = "ready"

SortClassesToProfile ==
    /\ pc = "ready"
    /\ \E r \in {sort_classes_to_profile(class_attributes_list, activeProfileList,
                                           possibleProfileList)} :
           /\ export_dict' = (IF r.raised THEN <<>> ELSE r.export_dict)
           /\ export_about_dict' = (IF r.raised THEN <<>> ELSE r.export_about_dict)
           /\ possibleProfileList' = r.ppl
           /\ pc' = (IF r.raised THEN "raised" ELSE "returned")
    /\ UNCHANGED <<res, heap, activeProfileList, attr_dict, reference_list,
                   class_attributes_list, files, clock>>

NextSort == SortClassesToProfile

SpecSort == InitSort /\ [][NextSort]_vars

-----------------------------------------------------------------------------
(* Properties of _get_reference_uuid *)

AttrRecords(list) ==
    SelectSeq(list, LAMBDA r : "attr_name" \in DOMAIN r)
RecordsOf(key) ==
    SelectSeq(AttrRecords(reference_list), LAMBDA r : r.attr_name = key)

\* h is registered under k, and its own identifier, when it has one, is k
RegisteredUnder(h, k) ==
    /\ \E i \in 1..Len(res) : res[i].obj = h /\ res[i].mRID = k
    /\ \A i \in 1..Len(heap[h].dict) :
          heap[h].dict[i].key = "mRID" => heap[h].dict[i].value = PyStr(k)
RegistryKeys == {res[i].mRID : i \in 1..Len(res)}

IsModelObject(val) == val.t = "obj" /\ heap[val.v].base
\* the number of model objects among the first j elements of a list
ModelObjectsUpTo(list, j) == Cardinality({n \in 1..j : IsModelObject(list[n])})

AttrEntries == {i \in 1..Len(attr_dict) : Len(attr_dict[i].key) = 2}

\* C5: a reference to a model object registered under k (a single value or
\* the j-th element of a list) is emitted as a record of that attribute whose
\* value is exactly '%k', also when the object is found only by the registry
\* scan.
C5_ReferenceResolvesToKey ==
    pc = "returned" =>
      \A i \in AttrEntries : \A k \in RegistryKeys :
        LET e == attr_dict[i]
            recs == RecordsOf(e.key)
        IN  /\ (IsModelObject(e.value) /\ RegisteredUnder(e.value.v, k))
                  => recs = <<[value |-> PyStr("%" \o k), attr_name |-> e.key]>>
            /\ e.value.t = "list" =>
                  \A j \in 1..Len(e.value.v) :
                    (IsModelObject(e.value.v[j]) /\ RegisteredUnder(e.value.v[j].v, k))
                      => /\ Len(recs) >= ModelObjectsUpTo(e.value.v, j)
                         /\ recs[ModelObjectsUpTo(e.value.v, j)].value = PyStr("%" \o k)

\* C5 witness: a single reference to the object without identifier that is
\* registered under "k2", and a list holding both registered objects, resolved.
C5_Witness ==
    /\ pc = "returned"
    /\ attr_dict[3].value = PyObj("oB")
    /\ attr_dict[4].value = PyList(<<PyObj("oA"), PyObj("oB")>>)
    /\ Len(AttrRecords(reference_list)) = 3

IsReferenceValue(val) ==
    IsModelObject(val) \/ (val.t = "list" /\ \E j \in 1..Len(val.v) : IsModelObject(val.v[j]))

\* C6: every reference token of a returned record is '%' followed by a key
\* of the registry; the bare token '%' is never the value of a record.
C6_UnresolvableReferenceOmitted ==
    pc = "returned" =>
      \A i \in AttrEntries :
        IsReferenceValue(attr_dict[i].value) =>
          \A n \in 1..Len(RecordsOf(attr_dict[i].key)) :
            /\ RecordsOf(attr_dict[i].key)[n].value # PyStr("%")
            /\ \E k \in RegistryKeys :
                  RecordsOf(attr_dict[i].key)[n].value = PyStr("%" \o k)

IsDefaultValue(val) ==
    \/ val.t = "none"
    \/ val.t = "str" /\ val.v = ""
    \/ val.t \in {"int", "float"} /\ val.v = 0

\* C8: no returned record has the value "", None, 0 or 0.0, and none has a
\* list value holding one of them.
C8_DefaultsSuppressed ==
    pc = "returned" =>
      \A n \in 1..Len(AttrRecords(reference_list)) :
        LET val == AttrRecords(reference_list)[n].value
        IN  /\ ~IsDefaultValue(val)
            /\ val.t = "list" => \A j \in 1..Len(val.v) : ~IsDefaultValue(val.v[j])

\* C8 witness: an attribute holding 0.0 and a list holding 0 beside a model
\* object went through; only the reference was emitted.
C8_Witness ==
    /\ pc = "returned"
    /\ attr_dict[3].value = PyFloat(0)
    /\ attr_dict[4].value = PyList(<<PyInt(0), PyObj("oA")>>)
    /\ AttrRecords(reference_list) =
          <<[value |-> PyStr("%k1"), attr_name |-> attr_dict[4].key]>>

-----------------------------------------------------------------------------
(* Properties of _sort_classes_to_profile *)

\* the entries of a plan filed under profile key p that belong to instance m
EntriesOf(plan, p, m) ==
    {n \in 1..Len(plan[p].classes) : plan[p].classes[n].mRID = m}

\* the profile keys under which instance m has an owned entry
OwnersOf(m) == {p \in DOMAIN export_dict : EntriesOf(export_dict, p, m) # {}}

\* the profile keys under which a record of attribute key of instance m is filed
FiledUnder(plan, m, key) ==
    {p \in DOMAIN plan :
        \E n \in EntriesOf(plan, p, m) :
          \E a \in 1..Len(plan[p].classes[n].attributes) :
            plan[p].classes[n].attributes[a].attr_name = key}

\* the profiles allowed for key k of class c by the allowed-profile map
AllowedProfiles(c, k) ==
    IF c \in DOMAIN possibleProfileList /\ k \in DOMAIN possibleProfileList[c]
    THEN {q \in DOMAIN cgmesProfile :
            \E i \in 1..Len(possibleProfileList[c][k]) :
              possibleProfileList[c][k][i] = cgmesProfile[q]}
    ELSE {}

\* the active allowed profile of the smallest rank
LowestRank(S) == CHOOSE q \in S : \A o \in S : cgmesProfile[q] <= cgmesProfile[o]

Klasses == 1..Len(class_attributes_list)
ReadInProfileOf(i) == class_attributes_list[i].attributes[1].readInProfile
NameKey == <<"IdentifiedObject", "name">>

\* C1: every attribute record of either plan is filed under a profile that
\* the allowed-profile map allows for the attribute's class and name.
C1_ProfileLegality ==
    pc = "returned" =>
      \A i \in Klasses :
        LET m == class_attributes_list[i].mRID
        IN  FiledUnder(export_dict, m, NameKey) \cup FiledUnder(export_about_dict, m, NameKey)
              \subseteq AllowedProfiles(NameKey[1], NameKey[2])

\* C2: an instance whose provenance names, for its class, an active profile
\* that the class allows is an owned entry of that profile.
C2_ProvenanceDecidesClass ==
    pc = "returned" =>
      \A i \in Klasses :
        ("class" \in DOMAIN ReadInProfileOf(i)
           /\ ReadInProfileOf(i)["class"] \in activeProfileList
           /\ ReadInProfileOf(i)["class"] \in AllowedProfiles(class_attributes_list[i].name, "class"))
          => ReadInProfileOf(i)["class"] \in OwnersOf(class_attributes_list[i].mRID)

ProvenanceSilent(i, k) ==
    k \notin DOMAIN ReadInProfileOf(i) \/ ReadInProfileOf(i)[k] \notin activeProfileList

\* C3: when provenance does not decide, a class and an attribute resolve to
\* the active member of their allowed-profile set with the smallest rank,
\* in whatever order the set was listed.
C3_PriorityFallback ==
    pc = "returned" =>
      \A i \in Klasses :
        LET k == class_attributes_list[i]
            classCands == AllowedProfiles(k.name, "class") \cap activeProfileList
            attrCands == AllowedProfiles(NameKey[1], NameKey[2]) \cap activeProfileList
        IN  /\ (ProvenanceSilent(i, "class") /\ classCands # {})
                  => OwnersOf(k.mRID) = {LowestRank(classCands)}
            /\ (OwnersOf(k.mRID) # {} /\ ProvenanceSilent(i, "name") /\ attrCands # {})
                  => /\ FiledUnder(export_dict, k.mRID, NameKey)
                          \cup FiledUnder(export_about_dict, k.mRID, NameKey)
                        = {LowestRank(attrCands)}
                     /\ (FiledUnder(export_dict, k.mRID, NameKey) # {}
                           <=> OwnersOf(k.mRID) = {LowestRank(attrCands)})

\* C3 witness: no provenance, both lists given as <<SV, EQ>>; with both
\* profiles active the class resolves to EQ, and so does the attribute.
C3_Witness ==
    /\ pc = "returned"
    /\ Len(class_attributes_list) >= 1
    /\ DOMAIN ReadInProfileOf(1) = {}
    /\ activeProfileList = {"EQ", "SV"}
    /\ AllowedProfiles("Terminal", "class") = {"EQ", "SV"}
    /\ AllowedProfiles("IdentifiedObject", "name") = {"EQ", "SV"}
    /\ OwnersOf("k1") = {"EQ"}
    /\ FiledUnder(export_dict, "k1", NameKey) = {"EQ"}

\* C4: no instance is an owned entry of more than one profile, nor more than
\* once of the profile that owns it.
C4_SingleOwnership ==
    \A i \in Klasses :
      LET m == class_attributes_list[i].mRID
      IN  /\ Cardinality(OwnersOf(m)) <= 1
          /\ \A p \in OwnersOf(m) : Cardinality(EntriesOf(export_dict, p, m)) = 1

\* C4 witness: two instances are owned, and one of them has an attribute
\* filed as an about entry of another profile.
C4_Witness ==
    /\ pc = "returned"
    /\ Len(class_attributes_list) >= 2
    /\ OwnersOf("k1") = {"EQ"}
    /\ OwnersOf("k2") = {"EQ"}
    /\ FiledUnder(export_about_dict, "k1", NameKey) = {"SV"}

\* C7: an instance for whose class no allowed profile is active, or whose
\* class has no `class` entry in the allowed-profile map, has no entry in
\* either plan.
C7_ClassDrop ==
    pc = "returned" =>
      \A i \in Klasses :
        LET k == class_attributes_list[i]
        IN  AllowedProfiles(k.name, "class") \cap activeProfileList = {}
              => \A p \in DOMAIN export_dict \cup DOMAIN export_about_dict :
                   /\ p \in DOMAIN export_dict => EntriesOf(export_dict, p, k.mRID) = {}
                   /\ p \in DOMAIN export_about_dict
                        => EntriesOf(export_about_dict, p, k.mRID) = {}

-----------------------------------------------------------------------------
(* Specification Spec: cim_export called repeatedly, with the same stem and   *)
(* into the same directory, on a registry of a Terminal "k1" and, behind   *)
(* it, an SvPowerFlow "k2" that carries no identifier.  "o3" is an         *)
(* SvPowerFlow that is not registered.                                     *)

ExportHeap(reference, readInProfile) ==
    [h \in {"o1", "o2", "o3"} |->
        IF h = "o1"
        THEN [cls |-> "Terminal", base |-> TRUE,
              dict |-> <<[key |-> "mRID", value |-> PyStr("k1")],
                         [key |-> "name", value |-> PyStr("n")],
                         [key |-> "SvPowerFlow", value |-> reference]>>,
              readInProfile |-> readInProfile]
        ELSE [cls |-> "SvPowerFlow", base |-> TRUE,
              dict |-> <<[key |-> "p", value |-> PyFloat(1)]>>,
              readInProfile |-> <<>>]]

ExportRes == <<[mRID |-> "k1", obj |-> "o1"], [mRID |-> "k2", obj |-> "o2"]>>

ExportReferences ==
    {PyNone, PyObj("o2"), PyObj("o3"), PyList(<<PyObj("o2"), PyObj("o3")>>)}

ExportProfileLists ==
    {[c \in {"Terminal", "IdentifiedObject", "SvPowerFlow"} |->
        CASE c = "Terminal" -> Put(t, "SvPowerFlow", <<cgmesProfile["SV"]>>)
          [] c = "IdentifiedObject" -> o
          [] OTHER -> [class |-> <<cgmesProfile["SV"]>>, p |-> <<cgmesProfile["SV"]>>]]
       : t \in TerminalProfileLists, o \in IdentifiedObjectProfileLists}

Init ==
    /\ \E reference \in ExportReferences,
          readInProfile \in Dicts({"class", "name"}, UsedProfiles) :
         heap = ExportHeap(reference, readInProfile)
    /\ res = ExportRes
    /\ possibleProfileList \in ExportProfileLists
    /\ activeProfileList = {}
    /\ attr_dict = <<>>
    /\ reference_list = <<>>
    /\ class_attributes_list = <<>>
    /\ export_dict = <<>>
    /\ export_about_dict = <<>>
    /\ files = <<>>
    /\ clock = 0
    /\ pc = "ready"

\* the outcome of lines 298-303: the plans, or the exception that ends the call
ExportPlans(active) ==
    LET c == get_class_attributes_with_references(res)
    IN  IF c.raised
        THEN [raised |-> TRUE, list |-> <<>>, export_dict |-> <<>>,
              export_about_dict |-> <<>>, ppl |-> possibleProfileList]
        ELSE LET r == sort_classes_to_profile(c.list, active, possibleProfileList)
             IN  [raised |-> r.raised, list |-> c.list,
                  export_dict |-> IF r.raised THEN <<>> ELSE r.export_dict,
                  export_about_dict |-> IF r.raised THEN <<>> ELSE r.export_about_dict,
                  ppl |-> r.ppl]

\* cim_export(res, namespaces_dict, file_name, version, active)
CimExport(active) ==
    /\ clock < MaxCalls
    /\ clock' = clock + 1
    /\ activeProfileList' = active
    /\ \E r \in {ExportPlans(active)} :
         /\ pc' = (IF r.raised THEN "raised" ELSE "returned")
         /\ class_attributes_list' = r.list
         /\ possibleProfileList' = r.ppl
         /\ export_dict' = r.export_dict
         /\ export_about_dict' = r.export_about_dict
         /\ files' = (IF r.raised THEN files
                      ELSE WriteProfiles(files, r.export_dict, r.export_about_dict,
                                         clock, 1))
    /\ UNCHANGED <<res, heap, attr_dict, reference_list>>

Next == \E active \in SUBSET UsedProfiles : CimExport(active)

Spec == Init /\ [][Next]_vars

-----------------------------------------------------------------------------
(* Properties of cim_export *)

ProfileFullName ==
    [EQ |-> "Equipment", SSH |-> "SteadyStateHypothesis", TP |-> "Topology",
     SV |-> "StateVariables", DY |-> "Dynamics", GL |-> "GeographicalLocation",
     DI |-> "DiagramLayout"]

OutputFile(q) == "stem_" \o ProfileFullName[q] \o ".xml"

\* profile q has an owned entry or an about entry in the plans
Contributes(exported, about, q) ==
    \/ q \in DOMAIN exported /\ Len(exported[q].classes) >= 1
    \/ q \in DOMAIN about /\ Len(about[q].classes) >= 1

\* C9: after an export into a directory without output files, the file of
\* profile P exists if and only if P is active and has an owned entry or an
\* about entry; there is no other file.
C9_FileLayout ==
    (clock = 1 /\ pc = "returned") =>
      /\ \A q \in DOMAIN ProfileFullName :
           OutputFile(q) \in DOMAIN files
             <=> (q \in activeProfileList /\ Contributes(export_dict, export_about_dict, q))
      /\ DOMAIN files \subseteq {OutputFile(q) : q \in DOMAIN ProfileFullName}

\* C9 witness: the first export wrote the Equipment file for about entries
\* alone, and none for the entries filed under the empty profile key.
C9_Witness ==
    /\ clock = 1
    /\ pc = "returned"
    /\ "" \in DOMAIN export_dict
    /\ "EQ" \in DOMAIN export_about_dict
    /\ "EQ" \notin DOMAIN export_dict
    /\ DOMAIN files = {"stem_Equipment.xml"}

CreatedOf(content) == content.model[1].description[1].value

\* C10: a call never changes a file whose path exists, and a call that
\* returns has written, with its own time stamp, the file of every profile
\* with contributions whose path did not exist.
C10_NoRewrite ==
    [][/\ \A path \in DOMAIN files :
            path \in DOMAIN files' /\ files'[path] = files[path]
       /\ pc' = "returned" =>
            \A q \in DOMAIN ProfileFullName :
              Contributes(export_dict', export_about_dict', q)
                => /\ OutputFile(q) \in DOMAIN files'
                   /\ OutputFile(q) \notin DOMAIN files
                        => CreatedOf(files'[OutputFile(q)]) = clock]_vars

\* C10 witness: the second export found the Equipment file of the first,
\* had entries for it again, left it as it was and wrote StateVariables.
C10_Witness ==
    /\ clock = 2
    /\ pc = "returned"
    /\ "EQ" \in DOMAIN export_dict
    /\ DOMAIN files = {"stem_Equipment.xml", "stem_StateVariables.xml"}
    /\ CreatedOf(files["stem_Equipment.xml"]) = 0
    /\ CreatedOf(files["stem_StateVariables.xml"]) = 1

\* every class of the allowed-profile map has a `class` entry, so that a
\* call can fail only to resolve a reference or to find an active profile
SchemaComplete ==
    \A c \in DOMAIN possibleProfileList : "class" \in DOMAIN possibleProfileList[c]

\* C11: a call of cim_export runs to its end without raising, whether or
\* not a reference is unresolvable, a list element is no model object, or no
\* active profile exists for a class or an attribute.
C11_NoAbort ==
    (clock >= 1 /\ SchemaComplete) => pc # "raised"

\* C12: a call of cim_export changes neither the registry, nor an object's
\* attribute values or provenance map, nor a class's allowed-profile map,
\* the order of the elements of its lists included.
C12_InputsUnchanged ==
    [][/\ res' = res
       /\ heap' = heap
       /\ possibleProfileList' = possibleProfileList]_vars

====
